---- MODULE Spec2Model ----
(***************************************************************************)
(* Model of app/services/data_layer.py: the local-filesystem StorageClient *)
(* (upload_file, delete_file, get_read_url) and the bootstrap entry point  *)
(* init() with its two helpers __init_db and __init_tables.                *)
(*                                                                         *)
(* Text is modelled as a sequence of one-character strings.  A UUID, whose *)
(* 36 characters (lower-case hex digits and dashes) are never inspected by *)
(* the code, is one element "#n" of such a sequence.                       *)
(***************************************************************************)
EXTENDS Integers, Sequences, FiniteSets, TLC

VARIABLES
    files,      \* the filesystem: full path -> content of the regular file there
    issued,     \* the UUIDs uuid.uuid4() has produced so far
    quota,      \* the calls the callers may still make, per operation
    nUp,        \* number of upload_file calls made
    lastUp,     \* the last upload_file call: its arguments and its outcome
    returned,   \* the records returned by the successful upload_file calls, in order
    dl,         \* per thread: the delete_file call it is in
    trueDel,    \* the full paths on which a delete_file call returned True, in order
    lastUrl,    \* the last get_read_url call: its argument and its outcome
    pc,         \* where init() is: "idle", a step of it, "done" or "raised"
    nInit,      \* number of init() calls made
    prevOk,     \* the call before the current one returned normally
    err,        \* the exception the current init() call raised, or "none"
    dbExists,   \* the server has the target database
    tables,     \* the tables of the target database
    rows,       \* table -> number of rows in it
    pending,    \* the tables created in the open transaction of __init_tables
    exists,     \* __init_db's local variable
    handles,    \* the connections and cursors that are open
    created,    \* the current call issued CREATE DATABASE
    dbExit,     \* how __init_db last exited and the handles it left open
    dbOk,       \* __init_db returned in the current call
    tblOk,      \* __init_tables returned in the current call
    slot        \* cl_data._data_layer: 0 for None, else the call that assigned it

storageVars == <<files, quota, issued, nUp, lastUp, returned, dl, trueDel, lastUrl>>

bootVars == <<pc, nInit, prevOk, err, dbExists, tables, rows, pending, exists,
              handles, created, dbExit, dbOk, tblOk, slot>>

vars == <<storageVars, bootVars>>

-----------------------------------------------------------------------------
(* Bounds *)

MaxUploads == 2
MaxDeletes == 2
MaxUrls == 1
MaxInits == 2
MaxRows == 1

-----------------------------------------------------------------------------
(* Values *)

Str(s) == [type |-> "str", val |-> s]
Bytes(b) == [type |-> "bytes", val |-> b]
None == [type |-> "NoneType", val |-> <<>>]

\* What the callers do in one run: uploads only, concurrent deletes of the
\* files already there, an upload and a delete, an upload and read URLs
Workloads ==
    { [up |-> MaxUploads, del |-> 0, url |-> 0],
      [up |-> 0, del |-> MaxDeletes, url |-> 0],
      [up |-> 1, del |-> 1, url |-> 0],
      [up |-> 1, del |-> 0, url |-> MaxUrls] }

\* Requested object keys: lower-case extension, upper-case extension, none,
\* a dot-file, a dot in a directory name only, a double extension, not a string.
RequestedKeys ==
    { Str(<<"n", ".", "t">>), Str(<<"n", ".", "T">>), Str(<<"n">>),
      Str(<<".", "t">>), Str(<<"a", ".", "b", "/", "c">>),
      Str(<<"n", ".", "t", ".", "G">>), None }

Payloads == { Bytes(<<"h", "i">>), Bytes(<<>>), Str(<<"h", "i">>) }

Threads == {"t1", "t2"}

-----------------------------------------------------------------------------
(* String helpers *)

RECURSIVE RFind(_, _, _)
\* str.rfind(c) over s[1..i], 1-based; 0 when c does not occur (Python's -1)
RFind(s, c, i) ==
    IF i = 0 THEN 0
    ELSE IF s[i] = c THEN i
    ELSE RFind(s, c, i - 1)

LowerChar(c) ==
    CASE c = "T" -> "t"
      [] c = "G" -> "g"
      [] c = "N" -> "n"
      [] OTHER -> c

Lower(s) == [i \in 1..Len(s) |-> LowerChar(s[i])]

RECURSIVE SkipDots(_, _, _)
\* genericpath._splitext's loop over the leading dots of the file name
SkipDots(p, filenameIndex, dotIndex) ==
    IF filenameIndex < dotIndex
    THEN IF p[filenameIndex] # "."
         THEN <<SubSeq(p, 1, dotIndex - 1), SubSeq(p, dotIndex, Len(p))>>
         ELSE SkipDots(p, filenameIndex + 1, dotIndex)
    ELSE <<p, <<>>>>

\* os.path.splitext(p): <<root, ext>>
SplitExt(p) ==
    LET sepIndex == RFind(p, "/", Len(p))
        dotIndex == RFind(p, ".", Len(p))
    IN  IF dotIndex > sepIndex
        THEN SkipDots(p, sepIndex + 1, dotIndex)
        ELSE <<p, <<>>>>

\* os.path.join(a, b)
Join(a, b) ==
    IF Len(b) > 0 /\ b[1] = "/" THEN b
    ELSE IF Len(a) = 0 \/ a[Len(a)] = "/" THEN a \o b
    ELSE a \o <<"/">> \o b

EndsWith(s, t) ==
    /\ Len(t) <= Len(s)
    /\ SubSeq(s, Len(s) - Len(t) + 1, Len(s)) = t

Prefixes(s) == { SubSeq(s, 1, k) : k \in 0..Len(s) }

\* utils.upload_dir(): the configured upload directory
UploadDir == <<"/", "u">>

UrlPrefix == <<"/", "u", "p", "l", "o", "a", "d", "s", "/">>

\* f"{x}" of a value
Format(x) == IF x.type = "NoneType" THEN <<"N", "o", "n", "e">> ELSE x.val

-----------------------------------------------------------------------------
(* The filesystem *)

\* Directories that exist: the upload directory, with or without a trailing slash
Dirs == {UploadDir, UploadDir \o <<"/">>, <<"/">>}

Exists(path) == path \in DOMAIN files \/ path \in Dirs

WriteFile(fs, path, content) ==
    [q \in DOMAIN fs \cup {path} |-> IF q = path THEN content ELSE fs[q]]

RemoveFile(fs, path) == [q \in DOMAIN fs \ {path} |-> fs[q]]

\* A file another part of the application put in the upload directory, and one
\* outside it
InitFiles ==
    WriteFile(WriteFile(<<>>, UploadDir \o <<"/", "k">>, <<"o">>), <<"/", "x">>, <<"o">>)

-----------------------------------------------------------------------------
(* Exceptions *)

\* The builtin exception classes below Exception that the modelled calls raise
ExceptionSubclasses ==
    {"TypeError", "OSError", "PermissionError", "FileNotFoundError", "IsADirectoryError"}

\* As `except OSError`
CatchesOSErrorOnly(exc) ==
    exc \in {"OSError", "PermissionError", "FileNotFoundError", "IsADirectoryError"}

\* `except Exception as e`
Catches(exc) == exc \in ExceptionSubclasses

EmptyDict == [k \in {} |-> <<>>]

-----------------------------------------------------------------------------
(* StorageClient.upload_file *)

Range(s) == { s[i] : i \in DOMAIN s }

\* As a client that stores under the requested key
KeepRequestedKey(id, object_key) == object_key.val

\* As the naming without .lower()
KeepExtensionCase(id, object_key) == <<id>> \o SplitExt(object_key.val)[2]

\* filename = str(uuid.uuid4()); extname = splitext(object_key)[1].lower();
\* object_key = filename + extname
GeneratedKey(id, object_key) == <<id>> \o Lower(SplitExt(object_key.val)[2])

UploadPath(object_key) == Join(UploadDir, object_key)

UploadRecord(object_key) ==
    [object_key |-> object_key, url |-> UrlPrefix \o object_key]

\* As a generator that repeats itself
RepeatedUuid == "#1"

\* str(uuid.uuid4()): a UUID that was not produced before.  The code never looks
\* inside a UUID, so which of the unused ones it is makes no difference: the
\* n-th one is "#n".
Uuid4 == "#" \o ToString(Cardinality(issued) + 1)

\* The state of the filesystem and the exception (or "none") with which the body
\* of the try block ends.  fault is the I/O error the environment injects:
\* "open" fails open(), "write" fails f.write() or the close after `written`
\* reached the disk.
UploadBody(id, object_key, data, fault, written) ==
    IF object_key.type # "str"
    THEN [fs |-> files, exc |-> "TypeError", key |-> <<>>]
    ELSE LET gen == GeneratedKey(id, object_key)
             path == UploadPath(gen)
         IN  IF fault = "open"
             THEN [fs |-> files, exc |-> "OSError", key |-> gen]
             ELSE IF data.type # "bytes"
             THEN [fs |-> WriteFile(files, path, <<>>), exc |-> "TypeError", key |-> gen]
             ELSE IF fault = "write"
             THEN [fs |-> WriteFile(files, path, written), exc |-> "OSError", key |-> gen]
             ELSE [fs |-> WriteFile(files, path, data.val), exc |-> "none", key |-> gen]

DoUpload(object_key, data, overwrite, id, fault, written) ==
    LET b == UploadBody(id, object_key, data, fault, written)
        ok == b.exc = "none"
        raised == ~ok /\ ~Catches(b.exc)
        result == IF ok THEN UploadRecord(b.key) ELSE EmptyDict
    IN  /\ files' = b.fs
        /\ issued' = issued \cup {id}
        /\ nUp' = nUp + 1
        /\ lastUp' = [key |-> object_key, data |-> data, overwrite |-> overwrite,
                      exc |-> b.exc, raised |-> raised, result |-> result]
        /\ returned' = IF ok THEN Append(returned, result) ELSE returned

\* A caller may also pass a key that an earlier upload returned.  The mime
\* argument is not read by the body and is left out.
UploadKeys == RequestedKeys \cup { Str(r.object_key) : r \in Range(returned) }

Upload ==
    /\ quota.up > 0
    /\ quota' = [quota EXCEPT !.up = @ - 1]
    /\ \E object_key \in UploadKeys, data \in Payloads, overwrite \in BOOLEAN,
          fault \in {"none", "open", "write"} :
         \E written \in (IF fault = "write" /\ data.type = "bytes"
                         THEN Prefixes(data.val) ELSE {<<>>}) :
            DoUpload(object_key, data, overwrite, Uuid4, fault, written)
    /\ UNCHANGED <<dl, trueDel, lastUrl, bootVars>>

-----------------------------------------------------------------------------
(* StorageClient.delete_file *)

IdleDelete ==
    [pc |-> "idle", arg |-> None, full |-> <<>>, existedAtCall |-> FALSE,
     sawExists |-> FALSE, exc |-> "none", raised |-> FALSE, ret |-> FALSE,
     removed |-> FALSE]

\* Paths handed to delete_file: an existing file, a missing one, an absolute
\* path, the empty path (the directory itself), not a string, a returned key
DeletePaths ==
    { Str(<<"k">>), Str(<<"z">>), Str(<<"/", "x">>), Str(<<>>), None }
        \cup { Str(r.object_key) : r \in Range(returned) }

DeleteCall(t) ==
    /\ dl[t].pc \in {"idle", "done"}
    /\ quota.del > 0
    /\ quota' = [quota EXCEPT !.del = @ - 1]
    /\ \E p \in DeletePaths :
         dl' = [dl EXCEPT ![t] =
                  [IdleDelete EXCEPT !.pc = "called", !.arg = p,
                     !.existedAtCall = p.type = "str" /\ Exists(Join(UploadDir, p.val))]]
    /\ UNCHANGED <<files, issued, nUp, lastUp, returned, trueDel, lastUrl, bootVars>>

\* As a handler that ends in `return True`
DeleteFinishTrue(d, exc) ==
    [d EXCEPT !.pc = "done", !.exc = exc, !.raised = FALSE, !.ret = TRUE]

\* except Exception as e: logger.warning(...); return False
DeleteFinish(d, exc) ==
    [d EXCEPT !.pc = "done", !.exc = exc, !.raised = ~Catches(exc), !.ret = FALSE]

\* os.path.exists(full_path)
PathExists(path) == Exists(path)

\* full_path = os.path.join(utils.upload_dir(), file_path); if os.path.exists(full_path):
DeleteCheck(t) ==
    /\ dl[t].pc = "called"
    /\ IF dl[t].arg.type # "str"
       THEN dl' = [dl EXCEPT ![t] = DeleteFinish(@, "TypeError")]
       ELSE LET full == Join(UploadDir, dl[t].arg.val)
            IN  IF PathExists(full)
                THEN dl' = [dl EXCEPT ![t].pc = "checked", ![t].full = full,
                                      ![t].sawExists = TRUE]
                ELSE dl' = [dl EXCEPT ![t].pc = "done", ![t].full = full,
                                      ![t].ret = FALSE]
    /\ UNCHANGED <<files, quota, issued, nUp, lastUp, returned, trueDel, lastUrl, bootVars>>

\* os.remove(path): the filesystem after it and the exception it raises.
\* denied is the environment refusing the removal.
OsRemove(path, denied) ==
    IF path \notin DOMAIN files
    THEN [fs |-> files,
          exc |-> IF path \in Dirs THEN "IsADirectoryError" ELSE "FileNotFoundError"]
    ELSE IF denied
    THEN [fs |-> files, exc |-> "PermissionError"]
    ELSE [fs |-> RemoveFile(files, path), exc |-> "none"]

\* os.remove(full_path); return True
DeleteRemove(t) ==
    /\ dl[t].pc = "checked"
    /\ \E denied \in BOOLEAN :
         LET r == OsRemove(dl[t].full, denied)
             d == [dl[t] EXCEPT !.removed = r.fs # files]
         IN  /\ files' = r.fs
             /\ dl' = [dl EXCEPT ![t] =
                         IF r.exc = "none"
                         THEN [d EXCEPT !.pc = "done", !.ret = TRUE]
                         ELSE DeleteFinish(d, r.exc)]
             /\ trueDel' = IF dl'[t].ret /\ ~dl'[t].raised
                           THEN Append(trueDel, dl[t].full) ELSE trueDel
    /\ UNCHANGED <<quota, issued, nUp, lastUp, returned, lastUrl, bootVars>>

-----------------------------------------------------------------------------
(* StorageClient.get_read_url *)

\* As a get_read_url that checks that the file exists
UrlOfExistingOnly(file_path) ==
    IF Exists(Join(UploadDir, Format(file_path))) THEN UrlPrefix \o Format(file_path) ELSE <<>>

\* return f"/uploads/{file_path}"
ReadUrl(file_path) == UrlPrefix \o Format(file_path)

UrlPaths ==
    { Str(<<"k">>), Str(<<"z">>), Str(<<"n", ".", "T">>), Str(<<>>) }
        \cup { Str(r.object_key) : r \in Range(returned) }

GetReadUrl ==
    /\ quota.url > 0
    /\ quota' = [quota EXCEPT !.url = @ - 1]
    /\ \E p \in UrlPaths : lastUrl' = [arg |-> p, result |-> ReadUrl(p)]
    /\ UNCHANGED <<files, issued, nUp, lastUp, returned, dl, trueDel, bootVars>>

-----------------------------------------------------------------------------
(* The storage specification *)

StorageStart ==
    /\ files = InitFiles
    /\ issued = {}
    /\ nUp = 0
    /\ lastUp = [key |-> None, data |-> Bytes(<<>>), overwrite |-> TRUE,
                 exc |-> "none", raised |-> FALSE, result |-> EmptyDict]
    /\ returned = <<>>
    /\ dl = [t \in Threads |-> IdleDelete]
    /\ trueDel = <<>>
    /\ lastUrl = [arg |-> None, result |-> <<>>]

-----------------------------------------------------------------------------
(* The database server *)

AllTables == {"users", "threads", "steps", "elements", "feedbacks"}

\* The handles __init_db opens, and those __init_tables opens
DbHandles == {"conn1", "cur1", "conn2", "cur2"}
TblHandles == {"conn3", "cur3"}

BootStart ==
    /\ pc = "idle"
    /\ nInit = 0
    /\ prevOk = FALSE
    /\ err = "none"
    /\ dbExists \in BOOLEAN
    /\ tables = {}
    /\ rows = [tb \in AllTables |-> 0]
    /\ pending = {}
    /\ exists = FALSE
    /\ handles = {}
    /\ created = FALSE
    /\ dbExit = [how |-> "none", open |-> {}]
    /\ dbOk = FALSE
    /\ tblOk = FALSE
    /\ slot = 0

\* An exception leaves the function it is raised in, and init(), at once
Raise(exc) ==
    /\ pc' = "raised"
    /\ err' = exc
    /\ dbExit' = IF pc \in {"db_connect", "db_query", "db_close1", "db_connect2",
                            "db_create", "db_close2"}
                 THEN [how |-> "raise", open |-> handles \cap DbHandles]
                 ELSE dbExit

\* The caller calls init(): at startup, or again
InitCall ==
    /\ pc \in {"idle", "done", "raised"}
    /\ nInit < MaxInits
    /\ nInit' = nInit + 1
    /\ prevOk' = (pc = "done")
    /\ pc' = "db_connect"
    /\ err' = "none"
    /\ created' = FALSE
    /\ dbOk' = FALSE
    /\ tblOk' = FALSE
    /\ exists' = FALSE
    /\ pending' = {}
    /\ UNCHANGED <<dbExists, tables, rows, handles, dbExit, slot, storageVars>>

\* conn = psycopg2.connect(dbname='postgres', ...); cur = conn.cursor()
DbConnect ==
    /\ pc = "db_connect"
    /\ \/ /\ handles' = handles \cup {"conn1", "cur1"}
          /\ pc' = "db_query"
          /\ UNCHANGED <<err, dbExit>>
       \/ /\ Raise("OperationalError")
          /\ UNCHANGED handles
    /\ UNCHANGED <<nInit, prevOk, dbExists, tables, rows, pending, exists, created,
                   dbOk, tblOk, slot, storageVars>>

\* cur.execute("SELECT 1 FROM pg_database WHERE datname = %s", (db_name,))
\* exists = cur.fetchone() is not None
DbQuery ==
    /\ pc = "db_query"
    /\ \/ /\ exists' = dbExists
          /\ pc' = "db_close1"
          /\ UNCHANGED <<err, dbExit>>
       \/ /\ Raise("OperationalError")
          /\ UNCHANGED exists
    /\ UNCHANGED <<nInit, prevOk, dbExists, tables, rows, pending, handles, created,
                   dbOk, tblOk, slot, storageVars>>

\* As an init() without the call of __init_tables()
SkipTables == "register"

\* init(): __init_db() is followed by __init_tables()
AfterInitDb == "tbl_connect"

\* if not exists:
NeedsCreate(found) == ~found

\* cur.close(); conn.close(); then the branch on exists: __init_db returns when
\* the database was found
DbClose1 ==
    /\ pc = "db_close1"
    /\ handles' = handles \ {"conn1", "cur1"}
    /\ IF NeedsCreate(exists)
       THEN /\ pc' = "db_connect2"
            /\ UNCHANGED <<dbExit, dbOk>>
       ELSE /\ pc' = AfterInitDb
            /\ dbExit' = [how |-> "return", open |-> handles' \cap DbHandles]
            /\ dbOk' = TRUE
    /\ UNCHANGED <<nInit, prevOk, err, dbExists, tables, rows, pending, exists,
                   created, tblOk, slot, storageVars>>

\* conn = psycopg2.connect(...); conn.autocommit = True; cur = conn.cursor()
DbConnect2 ==
    /\ pc = "db_connect2"
    /\ \/ /\ handles' = handles \cup {"conn2", "cur2"}
          /\ pc' = "db_create"
          /\ UNCHANGED <<err, dbExit>>
       \/ /\ Raise("OperationalError")
          /\ UNCHANGED handles
    /\ UNCHANGED <<nInit, prevOk, dbExists, tables, rows, pending, exists, created,
                   dbOk, tblOk, slot, storageVars>>

\* cur.execute(sql.SQL("CREATE DATABASE {}").format(sql.Identifier(db_name)))
DbCreate ==
    /\ pc = "db_create"
    /\ created' = TRUE
    /\ IF dbExists
       THEN /\ Raise("DuplicateDatabase")
            /\ UNCHANGED dbExists
       ELSE \/ /\ dbExists' = TRUE
               /\ pc' = "db_close2"
               /\ UNCHANGED <<err, dbExit>>
            \/ /\ Raise("InsufficientPrivilege")
               /\ UNCHANGED dbExists
    /\ UNCHANGED <<nInit, prevOk, tables, rows, pending, exists, handles, dbOk, tblOk,
                   slot, storageVars>>

\* cur.close(); conn.close(); __init_db returns
DbClose2 ==
    /\ pc = "db_close2"
    /\ handles' = handles \ {"conn2", "cur2"}
    /\ dbExit' = [how |-> "return", open |-> handles' \cap DbHandles]
    /\ dbOk' = TRUE
    /\ pc' = AfterInitDb
    /\ UNCHANGED <<nInit, prevOk, err, dbExists, tables, rows, pending, exists,
                   created, tblOk, slot, storageVars>>

\* conn = psycopg2.connect(dbname=db_name, ...); cur = conn.cursor()
TblConnect ==
    /\ pc = "tbl_connect"
    /\ \/ /\ dbExists
          /\ handles' = handles \cup {"conn3", "cur3"}
          /\ pc' = "tbl_execute"
          /\ UNCHANGED <<err, dbExit>>
       \/ /\ Raise("OperationalError")
          /\ UNCHANGED handles
    /\ UNCHANGED <<nInit, prevOk, dbExists, tables, rows, pending, exists, created,
                   dbOk, tblOk, slot, storageVars>>

\* As CREATE TABLE without IF NOT EXISTS
CreateTable(present) ==
    IF present \cap AllTables # {}
    THEN [exc |-> "DuplicateTable", create |-> {}]
    ELSE [exc |-> "none", create |-> AllTables]

\* The five CREATE TABLE IF NOT EXISTS statements: the tables they create
CreateTableIfNotExists(present) == [exc |-> "none", create |-> AllTables \ present]

\* cur.execute(sql)
TblExecute ==
    /\ pc = "tbl_execute"
    /\ \/ LET r == CreateTableIfNotExists(tables)
          IN  IF r.exc = "none"
              THEN /\ pending' = r.create
                   /\ pc' = "tbl_commit"
                   /\ UNCHANGED <<err, dbExit>>
              ELSE /\ Raise(r.exc)
                   /\ UNCHANGED pending
       \/ /\ Raise("OperationalError")
          /\ UNCHANGED pending
    /\ UNCHANGED <<nInit, prevOk, dbExists, tables, rows, exists, handles, created,
                   dbOk, tblOk, slot, storageVars>>

\* conn.commit()
TblCommit ==
    /\ pc = "tbl_commit"
    /\ \/ /\ tables' = tables \cup pending
          /\ rows' = [tb \in AllTables |-> IF tb \in pending THEN 0 ELSE rows[tb]]
          /\ pending' = {}
          /\ pc' = "tbl_close"
          /\ UNCHANGED <<err, dbExit>>
       \/ /\ Raise("OperationalError")
          /\ UNCHANGED <<tables, rows, pending>>
    /\ UNCHANGED <<nInit, prevOk, dbExists, exists, handles, created, dbOk, tblOk,
                   slot, storageVars>>

\* cur.close(); conn.close(); __init_tables returns
TblClose ==
    /\ pc = "tbl_close"
    /\ handles' = handles \ {"conn3", "cur3"}
    /\ tblOk' = TRUE
    /\ pc' = "register"
    /\ UNCHANGED <<nInit, prevOk, err, dbExists, tables, rows, pending, exists,
                   created, dbExit, dbOk, slot, storageVars>>

\* cl_data._data_layer = SQLAlchemyDataLayer(conninfo=..., storage_provider=
\* StorageClient(), show_logger=False)
Register ==
    /\ pc = "register"
    /\ \/ /\ slot' = nInit
          /\ pc' = "done"
          /\ UNCHANGED <<err, dbExit>>
       \/ /\ Raise("ConstructorError")
          /\ UNCHANGED slot
    /\ UNCHANGED <<nInit, prevOk, dbExists, tables, rows, pending, exists, handles,
                   created, dbOk, tblOk, storageVars>>

\* The framework, reading the slot, stores a row
InsertRow ==
    /\ slot # 0
    /\ \E tb \in tables :
         /\ rows[tb] < MaxRows
         /\ rows' = [rows EXCEPT ![tb] = @ + 1]
    /\ UNCHANGED <<pc, nInit, prevOk, err, dbExists, tables, pending, exists,
                   handles, created, dbExit, dbOk, tblOk, slot, storageVars>>

-----------------------------------------------------------------------------
(* The specifications *)

Init ==
    /\ StorageStart
    /\ quota \in Workloads
    /\ BootStart
    /\ dbExists = FALSE

Next ==
    \/ Upload
    \/ \E t \in Threads : DeleteCall(t)
    \/ \E t \in Threads : DeleteCheck(t)
    \/ \E t \in Threads : DeleteRemove(t)
    \/ GetReadUrl

\* The storage client at work
Spec == Init /\ [][Next]_vars

BootInit ==
    /\ StorageStart
    /\ quota = [up |-> 0, del |-> 0, url |-> 0]
    /\ BootStart

BootNext ==
    \/ InitCall
    \/ DbConnect
    \/ DbQuery
    \/ DbClose1
    \/ DbConnect2
    \/ DbCreate
    \/ DbClose2
    \/ TblConnect
    \/ TblExecute
    \/ TblCommit
    \/ TblClose
    \/ Register
    \/ InsertRow

\* The application starting up
BootSpec == BootInit /\ [][BootNext]_vars

-----------------------------------------------------------------------------
(* Properties of upload_file *)

UploadStep == nUp' = nUp + 1

Succeeded(u) == "object_key" \in DOMAIN u.result

IOErrors == {"OSError", "PermissionError", "FileNotFoundError", "IsADirectoryError"}

\* The file named name in the upload directory
InUploadDir(name) == UploadDir \o <<"/">> \o name

NoIOError(u) == u.key.type = "str" /\ u.data.type = "bytes" /\ u.exc \notin IOErrors

\* What C1 promises of a call u that left the filesystem fs, with ext the
\* extension the returned key has to end with
UploadContract(u, fs, ext) ==
    /\ Succeeded(u)
    /\ DOMAIN u.result = {"object_key", "url"}
    /\ u.result.object_key # u.key.val
    /\ EndsWith(u.result.object_key, ext)
    /\ InUploadDir(u.result.object_key) \in DOMAIN fs
    /\ fs[InUploadDir(u.result.object_key)] = u.data.val
    /\ u.result.url = <<"/", "u", "p", "l", "o", "a", "d", "s", "/">> \o u.result.object_key

\* C1 as stated: an upload of a string key and a binary payload that meets no
\* I/O error returns {object_key, url} with object_key different from the
\* requested key and ending with the requested key's extension, the file
\* object_key in the upload directory holding the payload, and url equal to
\* "/uploads/" followed by object_key.
C1_AsStated ==
    [][UploadStep /\ NoIOError(lastUp')
         => UploadContract(lastUp', files', SplitExt(lastUp'.key.val)[2])]_vars

\* C1 amended: as C1, with object_key ending with the lower-cased extension of
\* the requested key.
C1_UploadContract ==
    [][UploadStep /\ NoIOError(lastUp')
         => UploadContract(lastUp', files', Lower(SplitExt(lastUp'.key.val)[2]))]_vars

C1_Witness ==
    /\ nUp > 0
    /\ lastUp.key = Str(<<"n", ".", "T">>)
    /\ lastUp.data = Bytes(<<"h", "i">>)
    /\ Succeeded(lastUp)
    /\ EndsWith(lastUp.result.object_key, <<".", "t">>)
    /\ InUploadDir(lastUp.result.object_key) \in DOMAIN files

\* The files an upload step creates
NewFiles == DOMAIN files' \ DOMAIN files

\* name is a UUID this step produced followed by ext, and nothing else
FreshIdThen(name, ext) ==
    \E id \in issued' \ issued : name = <<id>> \o ext

\* C2 as stated: every file upload_file writes is named by a fresh unique id
\* followed by the extension of the requested key, character for character.
C2_AsStated ==
    [][UploadStep =>
         \A p \in NewFiles : \E name \in {SubSeq(p, Len(UploadDir) + 2, Len(p))} :
            /\ p = InUploadDir(name)
            /\ FreshIdThen(name, SplitExt(lastUp'.key.val)[2])
            /\ SplitExt(name)[2] = SplitExt(lastUp'.key.val)[2]]_vars

\* C2 amended: every file upload_file writes is named by a fresh unique id
\* followed by the lower-cased extension of the requested key, and nothing else
\* of the requested key is kept.
C2_GeneratedName ==
    [][UploadStep =>
         \A p \in NewFiles : \E name \in {SubSeq(p, Len(UploadDir) + 2, Len(p))} :
            /\ p = InUploadDir(name)
            /\ FreshIdThen(name, Lower(SplitExt(lastUp'.key.val)[2]))
            /\ SplitExt(name)[2] = Lower(SplitExt(lastUp'.key.val)[2])]_vars

C2_Witness ==
    /\ nUp > 0
    /\ lastUp.key = Str(<<"n", ".", "t", ".", "G">>)
    /\ \E id \in issued : InUploadDir(<<id, ".", "g">>) \in DOMAIN files

\* C3: upload_file never raises; a call in which naming, open or write failed
\* returns the empty result, which has no "object_key"; a result with an
\* "object_key" is returned only with the whole payload in the file.
C3_NeverRaises ==
    /\ [](nUp > 0 =>
            /\ ~lastUp.raised
            /\ lastUp.exc # "none" => DOMAIN lastUp.result = {}
            /\ Succeeded(lastUp) => lastUp.exc = "none")
    /\ [][UploadStep /\ Succeeded(lastUp') =>
            /\ InUploadDir(lastUp'.result.object_key) \in DOMAIN files'
            /\ files'[InUploadDir(lastUp'.result.object_key)] = lastUp'.data.val]_vars

C3_Witness ==
    /\ nUp > 0
    /\ lastUp.data.type = "str"
    /\ lastUp.exc = "TypeError"
    /\ ~lastUp.raised
    /\ DOMAIN lastUp.result = {}

NoDuplicates(s) == \A i, j \in DOMAIN s : i # j => s[i] # s[j]

\* C9: an upload step changes the name and content of no file that is there,
\* whatever key and overwrite flag it is given; a successful one adds exactly one
\* file, under a name no file has and no file had; the returned object keys are
\* pairwise distinct.
C9_NeverOverwrites ==
    /\ [][UploadStep =>
            /\ \A p \in DOMAIN files : p \in DOMAIN files' /\ files'[p] = files[p]
            /\ Succeeded(lastUp') =>
                 /\ NewFiles = {InUploadDir(lastUp'.result.object_key)}
                 /\ \A q \in NewFiles : q \notin Range(trueDel) /\ q \notin DOMAIN InitFiles
                 /\ \A r \in Range(returned) :
                        r.object_key # lastUp'.result.object_key]_vars
    /\ [](NoDuplicates([i \in DOMAIN returned |-> returned[i].object_key]))

C9_Witness ==
    /\ Len(returned) = 2
    /\ lastUp.overwrite
    /\ lastUp.key = Str(returned[1].object_key)
    /\ InUploadDir(returned[1].object_key) \in DOMAIN files
    /\ InUploadDir(returned[2].object_key) \in DOMAIN files

\* C10 as stated: an upload that returns the empty result leaves the files and
\* their contents as they were before the call.
C10_AsStated ==
    [][UploadStep /\ ~Succeeded(lastUp') => files' = files]_vars

-----------------------------------------------------------------------------
(* Properties of delete_file *)

Done(t) == dl[t].pc = "done"

\* C4: delete_file never raises; it returns True exactly when this call removed
\* the file at its path, False when it saw no file there and on every caught
\* error; after True the file is absent; of the calls made on the same existing
\* file at most one returns True, and exactly one when no removal was denied.
C4_DeleteOnce ==
    /\ \A t \in Threads : Done(t) =>
          /\ ~dl[t].raised
          /\ dl[t].ret <=> dl[t].removed
          /\ ~dl[t].sawExists => ~dl[t].ret
          /\ dl[t].exc # "none" => ~dl[t].ret
          /\ dl[t].ret => dl[t].full \notin DOMAIN files
    /\ NoDuplicates(trueDel)
    /\ \A t1, t2 \in Threads :
          /\ t1 # t2 /\ Done(t1) /\ Done(t2)
          /\ dl[t1].existedAtCall /\ dl[t2].existedAtCall
          /\ dl[t1].arg = dl[t2].arg
          /\ dl[t1].full \notin Dirs
          /\ dl[t1].exc # "PermissionError" /\ dl[t2].exc # "PermissionError"
          => dl[t1].ret # dl[t2].ret

C4_Witness ==
    \E t1, t2 \in Threads :
        /\ Done(t1) /\ Done(t2)
        /\ dl[t1].arg = Str(<<"k">>) /\ dl[t2].arg = Str(<<"k">>)
        /\ dl[t1].sawExists /\ dl[t2].sawExists
        /\ dl[t1].ret /\ ~dl[t2].ret /\ dl[t2].exc = "FileNotFoundError"
        /\ InUploadDir(<<"k">>) \notin DOMAIN files

-----------------------------------------------------------------------------
(* Properties of get_read_url *)

UrlStep == quota'.url = quota.url - 1

\* C5: get_read_url of a path string is "/uploads/" followed by that string,
\* whether or not a file is there, and changes no file; for the object key of a
\* returned upload record it is the record's url.
C5_ReadUrl ==
    /\ [](lastUrl.arg.type = "str" =>
            /\ lastUrl.result =
                 <<"/", "u", "p", "l", "o", "a", "d", "s", "/">> \o lastUrl.arg.val
            /\ \A r \in Range(returned) :
                 lastUrl.arg.val = r.object_key => lastUrl.result = r.url)
    /\ [][UrlStep => files' = files]_vars

C5_Witness ==
    /\ Len(returned) = 1
    /\ lastUrl.arg = Str(returned[1].object_key)
    /\ lastUrl.result = returned[1].url
    /\ Len(lastUrl.result) > Len(returned[1].object_key)

-----------------------------------------------------------------------------
(* Properties of init *)

\* Errors that come from the server or the environment, not from the statements
EnvFaults == {"OperationalError", "InsufficientPrivilege", "ConstructorError"}

\* A step of init() inside one call
InitStep == pc' # pc /\ nInit' = nInit

\* C6: an init() call that follows one that returned finds the database and the
\* five tables, issues no CREATE DATABASE, raises only on a fault of the
\* server or the environment, and no step of it changes the database, the
\* tables or their rows.
C6_SecondInit ==
    /\ [](prevOk =>
            /\ dbExists /\ tables = AllTables
            /\ ~created
            /\ pc \notin {"db_connect", "db_query", "raised"} => exists
            /\ pc = "raised" => err \in EnvFaults)
    /\ [][prevOk /\ InitStep =>
            dbExists' = dbExists /\ tables' = tables /\ rows' = rows]_vars

C6_Witness ==
    /\ prevOk
    /\ nInit = 2
    /\ pc = "done"
    /\ slot = 2
    /\ \E tb \in AllTables : rows[tb] > 0

\* C7: init() assigns the slot only in its last step, after __init_db and then
\* __init_tables returned in the same call; a step that raises and every step
\* after it until the next call leave the slot alone and run nothing again; the
\* slot is not populated while the database or one of the five tables is missing.
C7_FailFast ==
    /\ [](/\ slot # 0 => dbExists /\ tables = AllTables
          /\ pc = "register" => dbOk /\ tblOk
          /\ tblOk => dbOk)
    /\ [][/\ slot' # slot => pc = "register" /\ pc' = "done" /\ dbOk /\ tblOk
          /\ pc' = "raised" => slot' = slot /\ err' # "none"
          /\ pc = "raised" /\ nInit' = nInit => pc' = "raised" /\ slot' = slot]_vars

C7_Witness ==
    /\ nInit = 2
    /\ pc = "raised"
    /\ slot = 1
    /\ ~tblOk

\* C8 as stated: whenever __init_db has exited, by return or by an exception,
\* none of the connections and cursors it opened is open.
C8_AsStated == dbExit.open = {}

====
